---- MODULE Spec2Model ----
(***************************************************************************)
(* PrairieLearn scraper: date parsing, deadline resolution, section        *)
(* grouping (scraper.py) and the Notion upsert (notion_helper.py).         *)
(*                                                                         *)
(* Texts are sequences of tokens.  A date text is built from the tokens    *)
(*   ISO(t)  "YYYY-MM-DD HH:MM:SS" naming the civil time t                 *)
(*   HUM(o)  "HH:MM, Dow, Mon DD" naming the o-th instant of a year        *)
(*   OFF     a two-digit numeric offset suffix such as "-08"               *)
(*   TZ      a timezone marker "PST", "(PDT)"                              *)
(*   DASH    the placeholder "—"                                           *)
(*   JUNK    any other text ("garbage")                                    *)
(* Timestamps are civil times in the fixed zone, counted in instants.      *)
(***************************************************************************)
EXTENDS Integers, Sequences, FiniteSets, TLC

VARIABLES
    pc,           \* position of the caller: "start", then what has returned
    now,          \* the clock read by the operation (datetime.now)
    date_str,     \* argument of the last _parse_date call
    parsed,       \* its result
    popover,      \* argument of the last _scrape_from_popover call
    pop_result,   \* its result <<most_relevant, unlock_date>>
    table,        \* the page scrape_course loaded: its assessments table
    groups,       \* history: the sections scrape_course walked, in order,
                  \* each with the indexes of the rows it made records of
    assignments,  \* the list scrape_course returned
    records,      \* the list handed to import_assignments
    store0,       \* history: the pages import_assignments found
    store,        \* the pages of the Notion database
    existing,     \* the snapshot get_existing_assignments returned
    requests      \* the requests import_assignments issued, in order

vars == <<pc, now, date_str, parsed, popover, pop_result, table, groups, assignments,
          records, store0, store, existing, requests>>

---------------------------------------------------------------------------
(* Bounds *)

MaxTime == 3
YearLen == 2
DayLen == 2
MaxDateLen == 3
MaxTiers == 2
MaxRows == 4
MaxPages == 2
MaxRecords == 2

Times == 0..MaxTime

---------------------------------------------------------------------------
(* Values *)

None == -1
ValueError == -2

ISO(t) == [k |-> "iso", v |-> t]
HUM(o) == [k |-> "hum", v |-> o]
OFF == [k |-> "off", v |-> 0]
TZ == [k |-> "tz", v |-> 0]
DASH == [k |-> "dash", v |-> 0]
JUNK == [k |-> "junk", v |-> 0]

DateTokens ==
    {ISO(t) : t \in Times} \cup {HUM(o) : o \in 0..(YearLen - 1)}
        \cup {OFF, TZ, DASH, JUNK}

SeqsUpTo(S, n) == UNION {[1..m -> S] : m \in 0..n}

DateStrings == SeqsUpTo(DateTokens, MaxDateLen)

RECURSIVE Flatten(_)
Flatten(ss) ==
    IF ss = <<>> THEN <<>> ELSE Head(ss) \o Flatten(Tail(ss))

RECURSIVE Without(_, _)
Without(s, tok) ==
    IF s = <<>> THEN <<>>
    ELSE IF Head(s) = tok THEN Without(Tail(s), tok)
    ELSE <<Head(s)>> \o Without(Tail(s), tok)

---------------------------------------------------------------------------
(* _parse_date *)

\* re.sub(r"\s*\(?(PST|PDT)\)?", "", date_str).strip()
CleanTimezoneMarkers(s) == Without(s, TZ)

\* if re.search(r"[+-]\d{2}$", date_str): date_str = date_str[:-3]
StripOffsetSuffix(s) ==
    IF s # <<>> /\ s[Len(s)] = OFF THEN SubSeq(s, 1, Len(s) - 1) ELSE s

\* datetime.strptime(date_str, "%Y-%m-%d %H:%M:%S")
StrptimeISO(s) ==
    IF Len(s) = 1 /\ s[1].k = "iso" THEN s[1].v ELSE ValueError

CurrentYear(clock) == clock \div YearLen

\* datetime.strptime(f"{date_str} {current_year}", "%H:%M, %a, %b %d %Y")
StrptimeHuman(s, year) ==
    IF Len(s) = 1 /\ s[1].k = "hum" THEN year * YearLen + s[1].v ELSE ValueError

\* TIMEZONE.localize(dt): the civil time is taken at face value
Localize(dt) == dt

\* The second try block with its except clause removed.
ParseDateUncaught(s, clock) ==
    IF s = <<>> \/ s = <<DASH>> THEN None
    ELSE LET stripped == StripOffsetSuffix(CleanTimezoneMarkers(s))
             iso == StrptimeISO(stripped)
             hum == StrptimeHuman(stripped, CurrentYear(clock))
         IN  IF iso # ValueError THEN Localize(iso)
             ELSE IF hum # ValueError THEN Localize(hum)
             ELSE ValueError

ParseDate(s, clock) ==
    IF s = <<>> \/ s = <<DASH>> THEN None
    ELSE LET stripped == StripOffsetSuffix(CleanTimezoneMarkers(s))
             iso == StrptimeISO(stripped)
             hum == StrptimeHuman(stripped, CurrentYear(clock))
         IN  IF iso # ValueError THEN Localize(iso)
             ELSE IF hum # ValueError THEN Localize(hum)
             ELSE None

---------------------------------------------------------------------------
(* Specification of the date parser alone *)

Idle ==
    /\ date_str = <<>>
    /\ parsed = None
    /\ popover = [present |-> FALSE, rows |-> <<>>]
    /\ pop_result = <<None, None>>
    /\ table = [found |-> FALSE, rows |-> <<>>]
    /\ groups = <<>>
    /\ assignments = <<>>
    /\ records = <<>>
    /\ store0 = <<>>
    /\ store = <<>>
    /\ existing = <<>>
    /\ requests = <<>>

Init == pc = "start" /\ now \in Times /\ Idle

CallParseDate ==
    /\ pc = "start"
    /\ pc' = "parsed"
    /\ \E s \in DateStrings :
          /\ date_str' = s
          /\ parsed' = ParseDate(s, now)
    /\ UNCHANGED <<now, popover, pop_result, table, groups, assignments, records, store0, store,
                   existing, requests>>

NextParse == CallParseDate

SpecParse == Init /\ [][NextParse]_vars

---------------------------------------------------------------------------
(* _scrape_from_popover *)

\* A <tr> of the popover's sub-table: the number of its <td> cells and the
\* stripped texts of the first three.
PopoverRow(n, pct, unlock, due) ==
    [ncells |-> n, percentage |-> pct, unlock_str |-> unlock, deadline_str |-> due]

\* The sub-table's heading row: <th> cells only.
HeadingRow == PopoverRow(0, "", <<>>, <<>>)

\* A row without button, or a button without data-bs-content.
NoPopover == [present |-> FALSE, rows |-> <<>>]

Popover(rows) == [present |-> TRUE, rows |-> rows]

\* if deadline and deadline >= now and percentage == "100%", taking the
\* first such deadline instead of the earliest.
SelectFirstDeadline(most_relevant, deadline, percentage, clock) ==
    IF deadline # None /\ deadline >= clock /\ percentage = "100%"
    THEN IF most_relevant = None THEN deadline ELSE most_relevant
    ELSE most_relevant

\* scraper.py 157-159
SelectDeadline(most_relevant, deadline, percentage, clock) ==
    IF deadline # None /\ deadline >= clock /\ percentage = "100%"
    THEN IF most_relevant = None \/ deadline < most_relevant
         THEN deadline ELSE most_relevant
    ELSE most_relevant

\* The scan keeping the first unlock date that parses instead of the last.
RECURSIVE ScanDeadlineRowsFirstUnlock(_, _, _, _)
ScanDeadlineRowsFirstUnlock(rows, most_relevant, unlock_date, clock) ==
    IF rows = <<>> THEN <<most_relevant, unlock_date>>
    ELSE LET row == Head(rows) IN
         IF row.ncells < 3
         THEN ScanDeadlineRowsFirstUnlock(Tail(rows), most_relevant, unlock_date, clock)
         ELSE LET deadline == ParseDate(row.deadline_str, clock)
                  parsed_unlock == ParseDate(row.unlock_str, clock)
              IN  ScanDeadlineRowsFirstUnlock(
                      Tail(rows),
                      SelectDeadline(most_relevant, deadline, row.percentage, clock),
                      IF unlock_date = None THEN parsed_unlock ELSE unlock_date,
                      clock)

\* The body of "for row in deadline_rows", folded over the rows.
RECURSIVE ScanDeadlineRows(_, _, _, _)
ScanDeadlineRows(rows, most_relevant, unlock_date, clock) ==
    IF rows = <<>> THEN <<most_relevant, unlock_date>>
    ELSE LET row == Head(rows) IN
         IF row.ncells < 3
         THEN ScanDeadlineRows(Tail(rows), most_relevant, unlock_date, clock)
         ELSE LET deadline == ParseDate(row.deadline_str, clock)
                  parsed_unlock == ParseDate(row.unlock_str, clock)
              IN  ScanDeadlineRows(
                      Tail(rows),
                      SelectDeadline(most_relevant, deadline, row.percentage, clock),
                      IF parsed_unlock # None THEN parsed_unlock ELSE unlock_date,
                      clock)

\* popover.find_all("tr")[1:]
SkipHeader(rows) == IF rows = <<>> THEN <<>> ELSE Tail(rows)

ScrapeFromPopover(pop, clock) ==
    IF ~pop.present THEN <<None, None>>
    ELSE ScanDeadlineRows(SkipHeader(pop.rows), None, None, clock)

---------------------------------------------------------------------------
(* Specification of the popover path alone *)

PopoverText(t) == <<ISO(t), OFF, TZ>>

DeadlineTexts == {<<DASH>>} \cup {PopoverText(t) : t \in Times}

UnlockTexts == {<<DASH>>, PopoverText(0), PopoverText(1)}

TierRows ==
    {PopoverRow(3, pct, u, d) :
        pct \in {"100%", "50%"}, u \in UnlockTexts, d \in DeadlineTexts}
        \cup {PopoverRow(2, "100%", PopoverText(0), <<>>)}

FirstRows == {HeadingRow, PopoverRow(3, "100%", PopoverText(1), PopoverText(MaxTime))}

Popovers ==
    {NoPopover, Popover(<<>>)}
        \cup {Popover(<<h>> \o tiers) :
                h \in FirstRows, tiers \in SeqsUpTo(TierRows, MaxTiers)}

CallScrapeFromPopover ==
    /\ pc = "start"
    /\ pc' = "popover"
    /\ \E pop \in Popovers :
          /\ popover' = pop
          /\ pop_result' = ScrapeFromPopover(pop, now)
    /\ UNCHANGED <<now, date_str, parsed, table, groups, assignments, records, store0, store,
                   existing, requests>>

NextPopover == CallScrapeFromPopover

SpecPopover == Init /\ [][NextPopover]_vars

---------------------------------------------------------------------------
(* _parse_available_credit *)

\* Tokens of the "Available credit" cell besides the date tokens.
PCT(p) == [k |-> "pct", v |-> p]
UNTIL == [k |-> "until", v |-> 0]
STARTING == [k |-> "starting from", v |-> 0]
NL == [k |-> "newline", v |-> 0]
NONEWORD == [k |-> "None", v |-> 0]

\* \s+ : the first index from i on that holds no line break.
RECURSIVE SkipSpace(_, _)
SkipSpace(s, i) ==
    IF i <= Len(s) /\ s[i] = NL THEN SkipSpace(s, i + 1) ELSE i

\* (.+) : the last index of the line that starts at i.
RECURSIVE LineEnd(_, _)
LineEnd(s, i) ==
    IF i < Len(s) /\ s[i + 1] # NL THEN LineEnd(s, i + 1) ELSE i

\* (\d+%)\s+<keyword>\s+(.+) matched at index i
MatchesAt(s, i, keyword) ==
    /\ s[i].k = "pct"
    /\ LET j == SkipSpace(s, i + 1)
       IN  /\ j <= Len(s)
           /\ s[j] = keyword
           /\ SkipSpace(s, j + 1) <= Len(s)

\* re.search: the leftmost match, 0 when there is none.
Search(s, keyword) ==
    LET hits == {i \in 1..Len(s) : MatchesAt(s, i, keyword)}
    IN  IF hits = {} THEN 0 ELSE CHOOSE i \in hits : \A j \in hits : i <= j

\* match.group(2)
Group2(s, i) ==
    LET g == SkipSpace(s, SkipSpace(s, i + 1) + 1)
    IN  SubSeq(s, g, LineEnd(s, g))

ParseAvailableCredit(credit_text, clock) ==
    IF credit_text = <<>> \/ credit_text = <<NONEWORD>> THEN <<None, None>>
    ELSE LET until_match == Search(credit_text, UNTIL)
             starting_match == Search(credit_text, STARTING)
         IN  << IF until_match # 0
                THEN ParseDate(Group2(credit_text, until_match), clock)
                ELSE None,
                IF starting_match # 0
                THEN ParseDate(Group2(credit_text, starting_match), clock)
                ELSE None >>

---------------------------------------------------------------------------
(* scrape_course *)

\* Names are sequences of words; DASHSEP is the " - " of the full name.
DASHSEP == " - "

\* A <tr> holding a th[data-testid="assessment-group-heading"].
HeaderRow(text) == [kind |-> "header", text |-> text]

\* Any other <tr>: the number of its td.align-middle cells, the text of the
\* second, the text of the third, and the popover button of the row.
MemberRow(n, name, credit, pop) ==
    [kind |-> "member", ncells |-> n, name |-> name, credit_text |-> credit,
     popover |-> pop]

COURSE == "CPSC_V 221 201/202/203 2025W2"

AssignmentData(course, full_name, project, due, reminder) ==
    [course_name |-> course, assignment_name |-> full_name,
     project |-> project, due |-> due, reminder |-> reminder]

\* The popover tried first, the inline text only when it gives no deadline.
ResolveDeadlinePopoverFirst(row, clock) ==
    LET inline == IF row.ncells >= 3
                  THEN ParseAvailableCredit(row.credit_text, clock)
                  ELSE <<None, None>>
        pop == ScrapeFromPopover(row.popover, clock)
    IN  IF pop[1] = None
        THEN <<inline[1], IF inline[2] = None THEN pop[2] ELSE inline[2]>>
        ELSE <<pop[1], IF inline[2] = None THEN pop[2] ELSE inline[2]>>

\* scraper.py 216-232: <<deadline, unlock_date>> of a row
ResolveDeadline(row, clock) ==
    LET inline == IF row.ncells >= 3
                  THEN ParseAvailableCredit(row.credit_text, clock)
                  ELSE <<None, None>>
        pop == ScrapeFromPopover(row.popover, clock)
    IN  IF inline[1] = None
        THEN <<pop[1], IF inline[2] = None THEN pop[2] ELSE inline[2]>>
        ELSE inline

\* scraper.py 234-243
MakeAssignment(project_name, row, clock) ==
    LET d == ResolveDeadline(row, clock)
    IN  AssignmentData(COURSE, project_name \o <<DASHSEP>> \o row.name,
                       project_name, d[1], d[2])

\* tbody.find_all("th", ...): the indexes of the header rows, in order
HeaderIndexes(rows) ==
    LET RECURSIVE From(_)
        From(i) ==
            IF i > Len(rows) THEN <<>>
            ELSE IF rows[i].kind = "header" THEN <<i>> \o From(i + 1)
            ELSE From(i + 1)
    IN  From(1)

\* The walk without its break at the next header row.
RECURSIVE WalkSiblingsPastHeader(_, _)
WalkSiblingsPastHeader(rows, i) ==
    IF i > Len(rows) THEN <<>>
    ELSE IF rows[i].kind = "header" THEN WalkSiblingsPastHeader(rows, i + 1)
    ELSE IF rows[i].ncells >= 2 THEN <<i>> \o WalkSiblingsPastHeader(rows, i + 1)
    ELSE WalkSiblingsPastHeader(rows, i + 1)

\* The walk ending at a row with fewer than two cells.
RECURSIVE WalkSiblingsStopAtMalformed(_, _)
WalkSiblingsStopAtMalformed(rows, i) ==
    IF i > Len(rows) THEN <<>>
    ELSE IF rows[i].kind = "header" THEN <<>>
    ELSE IF rows[i].ncells >= 2
         THEN <<i>> \o WalkSiblingsStopAtMalformed(rows, i + 1)
    ELSE <<>>

\* The while loop over the following siblings, from row i on: the indexes
\* of the rows it makes a record of.
RECURSIVE WalkSiblings(_, _)
WalkSiblings(rows, i) ==
    IF i > Len(rows) THEN <<>>
    ELSE IF rows[i].kind = "header" THEN <<>>
    ELSE IF rows[i].ncells >= 2 THEN <<i>> \o WalkSiblings(rows, i + 1)
    ELSE WalkSiblings(rows, i + 1)

\* One pass of "for header in project_headers".
GroupOf(rows, h) == [name |-> rows[h].text, rows |-> WalkSiblings(rows, h + 1)]

WalkGroups(page) ==
    IF ~page.found THEN <<>>
    ELSE LET hs == HeaderIndexes(page.rows)
         IN  [k \in 1..Len(hs) |-> GroupOf(page.rows, hs[k])]

GroupAssignments(rows, g, clock) ==
    [k \in 1..Len(g.rows) |-> MakeAssignment(g.name, rows[g.rows[k]], clock)]

ScrapeCourse(page, clock) ==
    LET gs == WalkGroups(page)
    IN  Flatten([k \in 1..Len(gs) |-> GroupAssignments(page.rows, gs[k], clock)])

---------------------------------------------------------------------------
(* Specification of scrape_course *)

CreditTexts ==
    {<<>>, <<NONEWORD>>, <<JUNK>>, <<PCT(100), UNTIL, JUNK>>}
        \cup {<<PCT(p), UNTIL, HUM(o)>> : p \in {100, 50}, o \in 0..(YearLen - 1)}
        \cup {<<PCT(100), STARTING, HUM(o)>> : o \in 0..(YearLen - 1)}
        \cup {<<PCT(100), UNTIL, HUM(1), NL, PCT(100), STARTING, HUM(0)>>,
              <<PCT(100), UNTIL, HUM(1), PCT(100), STARTING, HUM(0)>>}

RowPopovers ==
    {NoPopover}
        \cup {Popover(<<HeadingRow, PopoverRow(3, pct, u, PopoverText(t))>>) :
                pct \in {"100%", "50%"}, u \in {<<DASH>>, PopoverText(1)},
                t \in {0, MaxTime}}

\* One section with one row, the row in every shape.
ResolveTables ==
    {<<HeaderRow(<<"P">>), MemberRow(n, <<"A">>, c, pop)>> :
        n \in {2, 3}, c \in CreditTexts, pop \in RowPopovers}

\* Tables of any shape, the rows in few shapes.
GroupRows ==
    {HeaderRow(<<"P">>), HeaderRow(<<"P", DASHSEP, "A">>)}
        \cup {MemberRow(2, nm, <<>>, NoPopover) :
                nm \in {<<"A">>, <<"B">>, <<"A", DASHSEP, "B">>}}
        \cup {MemberRow(1, <<>>, <<>>, NoPopover)}

Pages ==
    {[found |-> FALSE, rows |-> <<>>]}
        \cup {[found |-> TRUE, rows |-> r] :
                r \in ResolveTables \cup SeqsUpTo(GroupRows, MaxRows)}

CallScrapeCourse ==
    /\ pc = "start"
    /\ pc' = "scraped"
    /\ \E page \in Pages :
          /\ table' = page
          /\ groups' = WalkGroups(page)
          /\ assignments' = ScrapeCourse(page, now)
    /\ UNCHANGED <<now, date_str, parsed, popover, pop_result, records, store0, store,
                   existing, requests>>

NextScrape == CallScrapeCourse

SpecScrape == Init /\ [][NextScrape]_vars

---------------------------------------------------------------------------
(* notion_helper.py *)

\* A date string "YYYY-MM-DD" is the number of its day; None is no date.
\* assignment.due.strftime("%Y-%m-%d") if assignment.due else None
Strftime(t) == IF t = None THEN None ELSE t \div DayLen

\* A page of the database.  Select options are taken to resolve, so a
\* created page carries its Course and Project.
Page(id, name, status, due, reminder, course, project) ==
    [id |-> id, Name |-> name, Status |-> status, Due |-> due,
     Reminder |-> reminder, Course |-> course, Project |-> project]

\* PATCH pages/{page_id}: the properties sent replace the page's, the
\* others stay.
PatchPage(page, properties) ==
    [f \in DOMAIN page |->
        IF f \in DOMAIN properties THEN properties[f] ELSE page[f]]

\* get_existing_assignments: name -> {id, due}; a page without title is
\* skipped, a later page of the same name replaces an earlier one.
GetExistingAssignments(pages) ==
    LET titled == {i \in 1..Len(pages) : pages[i].Name # <<>>}
        names == {pages[i].Name : i \in titled}
        LastOf(n) == CHOOSE i \in titled :
                        /\ pages[i].Name = n
                        /\ \A j \in titled : pages[j].Name = n => j <= i
    IN  [n \in names |-> [id |-> pages[LastOf(n)].id, due |-> pages[LastOf(n)].Due]]

\* The update that also sends the reminder.
UpdatePropertiesWithReminder(assignment) ==
    [Due |-> Strftime(assignment.due), Reminder |-> Strftime(assignment.reminder)]

\* notion_helper.py 170-176
UpdateProperties(assignment) == [Due |-> Strftime(assignment.due)]

\* notion_helper.py 191-205
CreateProperties(assignment) ==
    [Name |-> assignment.assignment_name, Status |-> "To-do",
     Due |-> Strftime(assignment.due),
     Reminder |-> Strftime(assignment.reminder),
     Course |-> assignment.course_name, Project |-> assignment.project]

\* The comparison turned around: update when the due date is the same.
DueChangedInverted(stored, assignment) == stored.due = Strftime(assignment.due)

\* existing_assignments[name]["due"] != due_date_str
DueChanged(stored, assignment) == stored.due # Strftime(assignment.due)

NoRequest == [op |-> "none"]

\* update_or_create_assignment for the k-th record, the request answered
\* by response: "ok", or "error" for an HTTPStatusError.  Gives the request
\* issued and the pages afterwards.
UpdateOrCreateAssignment(k, assignment, snapshot, pages, response) ==
    LET name == assignment.assignment_name IN
    IF name \in DOMAIN snapshot
    THEN IF DueChanged(snapshot[name], assignment)
         THEN LET page_id == snapshot[name].id
                  properties == UpdateProperties(assignment)
              IN  [request |-> [op |-> "update", record |-> k, page |-> page_id,
                                properties |-> properties, response |-> response],
                   pages |-> IF response = "ok"
                             THEN [i \in 1..Len(pages) |->
                                     IF pages[i].id = page_id
                                     THEN PatchPage(pages[i], properties)
                                     ELSE pages[i]]
                             ELSE pages]
         ELSE [request |-> NoRequest, pages |-> pages]
    ELSE LET properties == CreateProperties(assignment)
         IN  [request |-> [op |-> "create", record |-> k, page |-> Len(pages) + 1,
                           properties |-> properties, response |-> response],
              pages |-> IF response = "ok"
                        THEN Append(pages,
                                 PatchPage(Page(Len(pages) + 1, <<>>, "", None,
                                                None, "", <<>>), properties))
                        ELSE pages]

\* The loop of import_assignments from the k-th record on: the snapshot is
\* the one read before the loop.
RECURSIVE ImportFrom(_, _, _, _, _, _)
ImportFrom(k, recs, snapshot, pages, responses, issued) ==
    IF k > Len(recs) THEN [pages |-> pages, requests |-> issued]
    ELSE LET r == UpdateOrCreateAssignment(k, recs[k], snapshot, pages, responses[k])
         IN  ImportFrom(k + 1, recs, snapshot, r.pages, responses,
                        IF r.request = NoRequest THEN issued
                        ELSE Append(issued, r.request))

ImportAssignments(recs, pages, responses) ==
    ImportFrom(1, recs, GetExistingAssignments(pages), pages, responses, <<>>)

---------------------------------------------------------------------------
(* Specification of import_assignments *)

ImportNames == {<<"P", DASHSEP, "A">>, <<"P", DASHSEP, "B">>}

\* Two instants of one day, an instant of the next day, and no date.
ImportDues == {None, 0, 1, DayLen}

ImportRecords ==
    {AssignmentData(COURSE, n, <<"P">>, d, 0) : n \in ImportNames, d \in ImportDues}

\* Pages as a user keeps them: status, reminder, course and project differ
\* from what a record of the same name would create.
StoredPages ==
    {[name |-> n, due |-> d] : n \in ImportNames, d \in {None, 0}}

Stores ==
    {[i \in 1..Len(ps) |->
        Page(i, ps[i].name, "Done", ps[i].due, 1, "Other course", <<"Q">>)] :
        ps \in SeqsUpTo(StoredPages, MaxPages)}

InitImport ==
    /\ pc = "start"
    /\ now = 0
    /\ date_str = <<>>
    /\ parsed = None
    /\ popover = NoPopover
    /\ pop_result = <<None, None>>
    /\ table = [found |-> FALSE, rows |-> <<>>]
    /\ groups = <<>>
    /\ assignments = <<>>
    /\ records = <<>>
    /\ store \in Stores
    /\ store0 = store
    /\ existing = <<>>
    /\ requests = <<>>

CallImportAssignments ==
    /\ pc = "start"
    /\ pc' = "imported"
    /\ \E recs \in SeqsUpTo(ImportRecords, MaxRecords) :
          \E responses \in [1..Len(recs) -> {"ok", "error"}] :
              LET r == ImportAssignments(recs, store, responses)
              IN  /\ records' = recs
                  /\ existing' = GetExistingAssignments(store)
                  /\ store' = r.pages
                  /\ requests' = r.requests
    /\ UNCHANGED <<now, date_str, parsed, popover, pop_result, table, groups,
                   assignments, store0>>

NextImport == CallImportAssignments

SpecImport == InitImport /\ [][NextImport]_vars

\* The program run again with the same list, after an import in which no
\* request failed: the store it finds is the one the first import left.
CallReimportAssignments ==
    /\ pc = "imported"
    /\ \A i \in 1..Len(requests) : requests[i].response = "ok"
    /\ pc' = "reimported"
    /\ \E responses \in [1..Len(records) -> {"ok", "error"}] :
          LET r == ImportAssignments(records, store, responses)
          IN  /\ store0' = store
              /\ existing' = GetExistingAssignments(store)
              /\ store' = r.pages
              /\ requests' = r.requests
    /\ UNCHANGED <<now, date_str, parsed, popover, pop_result, table, groups,
                   assignments, records>>

NextReimport == CallImportAssignments \/ CallReimportAssignments

SpecReimport == InitImport /\ [][NextReimport]_vars

---------------------------------------------------------------------------
(* Properties *)

Min(S) == CHOOSE x \in S : \A y \in S : x <= y

\* The tiers of a popover: the rows after the first that have three cells.
TiersOf(pop) ==
    LET rows == SkipHeader(pop.rows)
    IN  {i \in 1..Len(rows) : rows[i].ncells >= 3}

TierAt(pop, i) == SkipHeader(pop.rows)[i]

\* The due dates of the 100% tiers that parse and are not before the clock.
ValidFullCreditDues(pop, clock) ==
    {ParseDate(TierAt(pop, i).deadline_str, clock) : i \in
        {j \in TiersOf(pop) :
            /\ TierAt(pop, j).percentage = "100%"
            /\ ParseDate(TierAt(pop, j).deadline_str, clock) # None
            /\ ParseDate(TierAt(pop, j).deadline_str, clock) >= clock}}

\* C1: the due date the popover path returns is the minimum due date over
\* the tiers with 100% credit whose due date parses and is not before now,
\* and is absent when there is no such tier; past 100% tiers and tiers with
\* another percentage are never selected.
C1_PopoverSelectsEarliestValidFullCredit ==
    pc = "popover" =>
        LET dues == ValidFullCreditDues(popover, now)
        IN  IF dues = {} THEN pop_result[1] = None
            ELSE pop_result[1] = Min(dues)

\* A later valid 100% tier stands before the earlier one that is returned.
C1_Witness ==
    /\ pc = "popover"
    /\ pop_result[1] # None
    /\ \E i, j \in TiersOf(popover) :
          /\ i < j
          /\ TierAt(popover, i).percentage = "100%"
          /\ TierAt(popover, j).percentage = "100%"
          /\ ParseDate(TierAt(popover, j).deadline_str, now) >= now
          /\ ParseDate(TierAt(popover, i).deadline_str, now)
                > ParseDate(TierAt(popover, j).deadline_str, now)
          /\ pop_result[1] = ParseDate(TierAt(popover, j).deadline_str, now)

\* The forms of a date text as the specification words them: the ISO-like
\* form with an optional offset suffix, the human form, each with an
\* optional trailing timezone marker.
StripTrailingMarker(s) ==
    IF s # <<>> /\ s[Len(s)] = TZ THEN SubSeq(s, 1, Len(s) - 1) ELSE s

IsISOForm(s) ==
    LET t == StripTrailingMarker(s)
    IN  \/ Len(t) = 1 /\ t[1].k = "iso"
        \/ Len(t) = 2 /\ t[1].k = "iso" /\ t[2] = OFF

IsHumanForm(s) ==
    LET t == StripTrailingMarker(s)
    IN  Len(t) = 1 /\ t[1].k = "hum"

\* C9: _parse_date returns a timestamp or absent and never raises; the
\* empty text, the em-dash placeholder and every text of neither the
\* ISO-like nor the human form give absent.
C9_ParseDateSoftMiss ==
    pc = "parsed" =>
        /\ parsed # ValueError
        /\ (date_str = <<>> \/ date_str = <<DASH>>
                \/ (~IsISOForm(date_str) /\ ~IsHumanForm(date_str)))
            => parsed = None

\* C9, the part that holds: no exception escapes, and the empty text, the
\* placeholder and every text holding other words give absent.
C9_NeverRaises ==
    pc = "parsed" =>
        /\ parsed # ValueError
        /\ parsed = None \/ parsed >= 0
        /\ (date_str = <<>> \/ date_str = <<DASH>>
                \/ \E i \in 1..Len(date_str) : date_str[i] \in {JUNK, DASH})
            => parsed = None

---------------------------------------------------------------------------
(* Properties of scrape_course *)

\* The indexes i of rows, in order, that satisfy Keep(i).
Indexes(rows, Keep(_)) ==
    LET RECURSIVE From(_)
        From(i) ==
            IF i > Len(rows) THEN <<>>
            ELSE IF Keep(i) THEN <<i>> \o From(i + 1)
            ELSE From(i + 1)
    IN  From(1)

IsHeader(rows, i) == rows[i].kind = "header"

IsWellFormedMember(rows, i) == rows[i].kind = "member" /\ rows[i].ncells >= 2

\* The nearest header row before row i, 0 when there is none.
NearestHeader(rows, i) ==
    LET hs == {h \in 1..(i - 1) : IsHeader(rows, h)}
    IN  IF hs = {} THEN 0 ELSE CHOOSE h \in hs : \A g \in hs : g <= h

\* The rows the groups hold, group after group.
GroupedRows == Flatten([k \in 1..Len(groups) |-> groups[k].rows])

\* The row the k-th record was made of.
RowOf(k) == table.rows[GroupedRows[k]]

InlineOf(row) ==
    IF row.ncells >= 3 THEN ParseAvailableCredit(row.credit_text, now)
    ELSE <<None, None>>

PopoverOf(row) == ScrapeFromPopover(row.popover, now)

Scraped == pc = "scraped" /\ Len(assignments) = Len(GroupedRows)

\* The deadlines a row states for full credit: the inline "100% until"
\* clause and the popover's 100% tiers.
FullCreditDeadlines(row) ==
    LET m == IF row.ncells >= 3 THEN Search(row.credit_text, UNTIL) ELSE 0
    IN  (IF m # 0 /\ row.credit_text[m] = PCT(100) /\ InlineOf(row)[1] # None
         THEN {InlineOf(row)[1]} ELSE {})
        \cup (IF row.popover.present
              THEN {ParseDate(TierAt(row.popover, i).deadline_str, now) :
                      i \in {j \in TiersOf(row.popover) :
                                TierAt(row.popover, j).percentage = "100%"}}
              ELSE {})

\* C2: the due date of every record is a still-future 100%-credit deadline:
\* never the deadline of a tier with less credit, never one before now.
C2_DueIsFutureFullCredit ==
    pc = "scraped" =>
        \A k \in 1..Len(assignments) :
            assignments[k].due # None =>
                /\ assignments[k].due >= now
                /\ assignments[k].due \in FullCreditDeadlines(RowOf(k))

\* C3: the due date of every record is the inline due date when the inline
\* text gives one, else the popover's, else absent.
C3_DuePrecedence ==
    pc = "scraped" =>
        /\ Len(assignments) = Len(GroupedRows)
        /\ \A k \in 1..Len(assignments) :
              assignments[k].due =
                  IF InlineOf(RowOf(k))[1] # None THEN InlineOf(RowOf(k))[1]
                  ELSE PopoverOf(RowOf(k))[1]

\* The inline text and the popover both give a due date, and they differ.
C3_Witness ==
    /\ Scraped
    /\ \E k \in 1..Len(assignments) :
          /\ InlineOf(RowOf(k))[1] # None
          /\ PopoverOf(RowOf(k))[1] # None
          /\ PopoverOf(RowOf(k))[1] # InlineOf(RowOf(k))[1]
          /\ assignments[k].due = InlineOf(RowOf(k))[1]

\* C4: the unlock date of every record is the inline unlock date when
\* present, else the popover's, else absent, whether or not the inline text
\* gave a due date.
C4_UnlockPrecedence ==
    pc = "scraped" =>
        \A k \in 1..Len(assignments) :
            assignments[k].reminder =
                IF InlineOf(RowOf(k))[2] # None THEN InlineOf(RowOf(k))[2]
                ELSE PopoverOf(RowOf(k))[2]

\* C5: there are as many groups as header rows, and the groups' rows, group
\* after group, are the well-formed member rows of the table in order.
C5_GroupingKeepsEveryMember ==
    pc = "scraped" =>
        /\ Len(groups) = Len(Indexes(table.rows, LAMBDA i : IsHeader(table.rows, i)))
        /\ GroupedRows =
              Indexes(table.rows, LAMBDA i : IsWellFormedMember(table.rows, i))

\* C5 as amended: the same, of the well-formed member rows that follow the
\* first header row; one record is made of each.
C5_GroupingKeepsMembersAfterFirstHeader ==
    pc = "scraped" =>
        /\ Len(groups) = Len(Indexes(table.rows, LAMBDA i : IsHeader(table.rows, i)))
        /\ GroupedRows =
              Indexes(table.rows,
                      LAMBDA i : /\ IsWellFormedMember(table.rows, i)
                                 /\ NearestHeader(table.rows, i) # 0)
        /\ Len(assignments) = Len(GroupedRows)

\* A header without members, a malformed row inside a group and a member
\* after it.
C5_Witness ==
    /\ Scraped
    /\ \E g, h \in 1..Len(groups) : groups[g].rows = <<>> /\ groups[h].rows # <<>>
    /\ \E i, j \in 1..Len(table.rows) :
          /\ i < j
          /\ table.rows[i].kind = "member" /\ table.rows[i].ncells < 2
          /\ NearestHeader(table.rows, i) # 0
          /\ NearestHeader(table.rows, j) = NearestHeader(table.rows, i)
          /\ \E k \in 1..Len(GroupedRows) : GroupedRows[k] = j

\* C6: no two records of one run carry the same assignment_name.
C6_AssignmentNameUnique ==
    pc = "scraped" =>
        \A i, j \in 1..Len(assignments) :
            i # j => assignments[i].assignment_name # assignments[j].assignment_name

\* C10: the records are made of the well-formed member rows that have a
\* header before them, in order, each with the text of the nearest header
\* before its row as project and "<that text> - <row name>" as name.
C10_SectionMembership ==
    pc = "scraped" =>
        LET rows == table.rows
            idx == Indexes(rows, LAMBDA i : /\ IsWellFormedMember(rows, i)
                                            /\ NearestHeader(rows, i) # 0)
        IN  /\ Len(assignments) = Len(idx)
            /\ \A k \in 1..Len(idx) :
                  LET header == rows[NearestHeader(rows, idx[k])].text
                  IN  /\ assignments[k].project = header
                      /\ assignments[k].assignment_name
                            = header \o <<DASHSEP>> \o rows[idx[k]].name

\* Two sections with different headings, each with a record.
C10_Witness ==
    /\ Scraped
    /\ \E i, j \in 1..Len(assignments) :
          /\ i < j
          /\ assignments[i].project # assignments[j].project
          /\ NearestHeader(table.rows, GroupedRows[i])
                < NearestHeader(table.rows, GroupedRows[j])

---------------------------------------------------------------------------
(* Properties of import_assignments *)

\* The number of pages named n.
Entries(pages, n) == Cardinality({i \in 1..Len(pages) : pages[i].Name = n})

RequestsOf(k, op) ==
    {i \in 1..Len(requests) : requests[i].record = k /\ requests[i].op = op}

\* C7: after the import no name has more entries than it had before plus
\* one, and a name that had an entry gets no new one.
C7_NoDuplicateEntries ==
    pc = "imported" =>
        \A n \in ImportNames :
            /\ Entries(store, n) <= Entries(store0, n) + 1
            /\ Entries(store0, n) > 0 => Entries(store, n) = Entries(store0, n)

---------------------------------------------------------------------------
(* Properties of the popover's unlock date *)

\* The tiers whose unlock text parses.
UnlockTiers(pop, clock) ==
    {i \in TiersOf(pop) : ParseDate(TierAt(pop, i).unlock_str, clock) # None}

Max(S) == CHOOSE x \in S : \A y \in S : y <= x

\* C11: the unlock date the popover path returns is that of the last tier,
\* in row order, whose unlock text parses, whatever the tier's percentage
\* and due date, and is absent when no tier has one; the first row of the
\* sub-table is the header and gives nothing.
C11_PopoverUnlockLastWins ==
    pc = "popover" =>
        LET us == UnlockTiers(popover, now)
        IN  IF us = {} THEN pop_result[2] = None
            ELSE pop_result[2] = ParseDate(TierAt(popover, Max(us)).unlock_str, now)

\* The first row carries an unlock date, two tiers carry different ones,
\* and the later tier, with less than full credit, gives the result.
C11_Witness ==
    /\ pc = "popover"
    /\ popover.present
    /\ popover.rows # <<>>
    /\ popover.rows[1].ncells >= 3
    /\ ParseDate(popover.rows[1].unlock_str, now) # None
    /\ \E i, j \in UnlockTiers(popover, now) :
          /\ i < j
          /\ j = Max(UnlockTiers(popover, now))
          /\ TierAt(popover, j).percentage # "100%"
          /\ ParseDate(TierAt(popover, i).unlock_str, now)
                # ParseDate(TierAt(popover, j).unlock_str, now)
          /\ ParseDate(popover.rows[1].unlock_str, now)
                # ParseDate(TierAt(popover, j).unlock_str, now)
          /\ pop_result[2] = ParseDate(TierAt(popover, j).unlock_str, now)

---------------------------------------------------------------------------
(* Properties of a second import *)

\* C12: an import of the same list after an import without request
\* failures issues no create and no update and leaves the store as it
\* found it.
C12_ReimportIdempotent ==
    pc = "reimported" => requests = <<>> /\ store = store0

\* C12 for lists in which no two records carry the same name.
C12_ReimportIdempotentUniqueNames ==
    (/\ pc = "reimported"
     /\ \A i, j \in 1..Len(records) :
           i # j => records[i].assignment_name # records[j].assignment_name)
        => requests = <<>> /\ store = store0

====
